---- MODULE Spec2Model ----
(***************************************************************************)
(* s3_benchmark (src/main.rs): put_concurrency PUT tasks and               *)
(* get_concurrency GET tasks run concurrently against an object store,     *)
(* push one Stats per successful request into a mutex-guarded vector, and  *)
(* after join_all the main task folds the vector into two summary lines.   *)
(***************************************************************************)
EXTENDS Integers, Naturals, Sequences, FiniteSets, TLC

(* ---- run configuration (Args) ---- *)
put_concurrency == 2
put_count_per_thread == 2
get_concurrency == 1
get_count_per_thread == 2

(* ---- bounds of the model ---- *)
\* pages the store serves in one listing pass
MaxPages == 2
\* empty listing passes (each followed by the 1 s sleep) one GET task may see
MaxSleeps == 1
\* "HttpDispatch" lines one GET task may print while listing
MaxDispatch == 1
\* length of the stats vectors the aggregation is run on in SpecAgg
MaxStats == 3

PutWorkers == 1..put_concurrency
GetWorkers == 1..get_concurrency

\* thread_rng().gen_range(1024..1024*1024*100): the size the PUT tasks draw
FileSizes == {1024}
\* Instant::now() when a request is built, and when its response is complete
StartInstants == {0}
EndInstants == {10}

\* Object.key of a listed object: Some("<prefix>/put_<size>") or None
NoKey == 0

VARIABLES
    stats_vec,      \* Vec<Stats> behind the Arc<Mutex<..>>
    mutex,          \* who holds the std::sync::Mutex: Free, <<"put", w>>, <<"get", w>>, <<"main", 0>>
    put_pc,         \* PUT task w: "loop", "put_await", "lock", "push", "done"
    put_i,          \* PUT task w: completed iterations of `for _ in 0..put_count_per_thread`
    put_stats,      \* PUT task w: the request in flight / the Stats about to be pushed
    put_pushed,     \* PUT task w: times the Ok arm pushed
    put_failed,     \* PUT task w: times an Err arm was taken
    get_pc,         \* GET task w: "loop", "list", "check", "sleep", "get_await", "lock", "push", "done", "panicked"
    get_num,        \* GET task w: local get_num
    token,          \* GET task w: request.continuation_token (0 = None)
    objects,        \* GET task w: local objects
    pass_end,       \* GET task w: how the listing loop was left: "none", "no_contents", "no_contents_token", "no_token", "error"
    key,            \* GET task w: local key, the size s of "<root_prefix>/put_<s>" (NoKey before the pick)
    get_stats,      \* GET task w: the request in flight / the Stats about to be pushed
    get_pushed,     \* GET task w: times the Ok/Some arm pushed
    get_failed,     \* GET task w: gets that ended in None body or Err
    empty_passes,   \* GET task w: listing passes left with objects empty
    sleeps,         \* GET task w: times the 1 s sleep was taken
    dispatches,     \* GET task w: "HttpDispatch" lines printed while listing
    main_pc,        \* main: "join", "lock", "iter", "avg", "reported", "panicked"
    idx,            \* main: position of stat_vec.iter()
    acc,            \* main: put_count, get_count, put_time, get_time, put_file_size, get_file_size
    report,         \* main: the two printed lines, or NoReport
    passes,         \* aggregation passes completed with a report
    first_report    \* the report of the first pass, or NoReport

putVars == <<put_pc, put_i, put_stats, put_pushed, put_failed>>
getVars == <<get_pc, get_num, token, objects, pass_end, key, get_stats, get_pushed,
             get_failed, empty_passes, sleeps, dispatches>>
mainVars == <<main_pc, idx, acc, report, passes, first_report>>
vars == <<stats_vec, mutex, putVars, getVars, mainVars>>

Stats(rt, st, et, fs) ==
    [request_type |-> rt, start_time |-> st, end_time |-> et, file_size |-> fs]

NoStats == [request_type |-> "none"]

\* nothing printed
NoReport == [put |-> "none", get |-> "none"]

\* the mutex is unlocked
Free == <<"free", 0>>

ZeroAcc == [put_count |-> 0, get_count |-> 0, put_time |-> 0, get_time |-> 0,
            put_file_size |-> 0, get_file_size |-> 0]

Init ==
    /\ stats_vec = <<>>
    /\ mutex = Free
    /\ put_pc = [w \in PutWorkers |-> "loop"]
    /\ put_i = [w \in PutWorkers |-> 0]
    /\ put_stats = [w \in PutWorkers |-> NoStats]
    /\ put_pushed = [w \in PutWorkers |-> 0]
    /\ put_failed = [w \in PutWorkers |-> 0]
    /\ get_pc = [w \in GetWorkers |-> "loop"]
    /\ get_num = [w \in GetWorkers |-> 0]
    /\ token = [w \in GetWorkers |-> 0]
    /\ objects = [w \in GetWorkers |-> <<>>]
    /\ pass_end = [w \in GetWorkers |-> "none"]
    /\ key = [w \in GetWorkers |-> NoKey]
    /\ get_stats = [w \in GetWorkers |-> NoStats]
    /\ get_pushed = [w \in GetWorkers |-> 0]
    /\ get_failed = [w \in GetWorkers |-> 0]
    /\ empty_passes = [w \in GetWorkers |-> 0]
    /\ sleeps = [w \in GetWorkers |-> 0]
    /\ dispatches = [w \in GetWorkers |-> 0]
    /\ main_pc = "join"
    /\ idx = 0
    /\ acc = ZeroAcc
    /\ report = NoReport
    /\ passes = 0
    /\ first_report = NoReport

(* ======================= PUT task (lines 84-123) ======================= *)

\* for-loop head: leave after put_count_per_thread iterations, else build the
\* request (file_size, start_time) and send it
PutLoop(w) ==
    /\ put_pc[w] = "loop"
    /\ IF put_i[w] >= put_count_per_thread
         THEN /\ put_pc' = [put_pc EXCEPT ![w] = "done"]
              /\ UNCHANGED put_stats
         ELSE \E fs \in FileSizes, st \in StartInstants :
              /\ put_stats' = [put_stats EXCEPT ![w] = Stats("Put", st, st, fs)]
              /\ put_pc' = [put_pc EXCEPT ![w] = "put_await"]
    /\ UNCHANGED <<stats_vec, mutex, put_i, put_pushed, put_failed, getVars, mainVars>>

\* Ok(_): end_time is taken and the Stats built
PutOk(w) ==
    /\ put_pc[w] = "put_await"
    /\ \E et \in EndInstants :
         put_stats' = [put_stats EXCEPT ![w].end_time = et]
    /\ put_pc' = [put_pc EXCEPT ![w] = "lock"]
    /\ UNCHANGED <<stats_vec, mutex, put_i, put_pushed, put_failed, getVars, mainVars>>

\* mutant: an Err arm that leaves the for loop (break) instead of going on
PutAbortOnErr(w) ==
    /\ put_i' = put_i
    /\ put_pc' = [put_pc EXCEPT ![w] = "done"]

\* where the PUT task goes after an Err arm: the next iteration of the for loop
PutAfterErr(w) ==
    /\ put_i' = [put_i EXCEPT ![w] = @ + 1]
    /\ put_pc' = [put_pc EXCEPT ![w] = "loop"]

\* Err(HttpDispatch) and Err(e): a line is printed, nothing is pushed
PutErr(w) ==
    /\ put_pc[w] = "put_await"
    /\ put_failed' = [put_failed EXCEPT ![w] = @ + 1]
    /\ put_stats' = [put_stats EXCEPT ![w] = NoStats]
    /\ PutAfterErr(w)
    /\ UNCHANGED <<stats_vec, mutex, put_pushed, getVars, mainVars>>

\* mutant: the vector is reached without waiting for the mutex
PutLockNoExclusion(w) ==
    /\ put_pc[w] = "lock"
    /\ mutex' = <<"put", w>>
    /\ put_pc' = [put_pc EXCEPT ![w] = "push"]
    /\ UNCHANGED <<stats_vec, put_i, put_stats, put_pushed, put_failed, getVars, mainVars>>

\* stats_vec.lock().unwrap()
PutLock(w) ==
    /\ put_pc[w] = "lock"
    /\ mutex = Free
    /\ mutex' = <<"put", w>>
    /\ put_pc' = [put_pc EXCEPT ![w] = "push"]
    /\ UNCHANGED <<stats_vec, put_i, put_stats, put_pushed, put_failed, getVars, mainVars>>

\* mutant: a push that writes the last slot instead of growing the vector
PushOverwrite(vec, stats) ==
    IF vec = <<>> THEN <<stats>> ELSE [vec EXCEPT ![Len(vec)] = stats]

\* mutant: the record is inserted at the front of the vector
PushFront(vec, stats) == <<stats>> \o vec

\* Vec::push
Push(vec, stats) == Append(vec, stats)

\* mutant: the guard is bound to a variable that outlives the iteration, so
\* the mutex stays locked after the push
PutPushKeepLock(w) ==
    /\ put_pc[w] = "push"
    /\ mutex = <<"put", w>>
    /\ stats_vec' = Push(stats_vec, put_stats[w])
    /\ mutex' = mutex
    /\ put_pushed' = [put_pushed EXCEPT ![w] = @ + 1]
    /\ put_stats' = [put_stats EXCEPT ![w] = NoStats]
    /\ put_i' = [put_i EXCEPT ![w] = @ + 1]
    /\ put_pc' = [put_pc EXCEPT ![w] = "loop"]
    /\ UNCHANGED <<put_failed, getVars, mainVars>>

\* .push(stats); the guard is dropped at the end of the statement
PutPush(w) ==
    /\ put_pc[w] = "push"
    /\ mutex = <<"put", w>>
    /\ stats_vec' = Push(stats_vec, put_stats[w])
    /\ mutex' = Free
    /\ put_pushed' = [put_pushed EXCEPT ![w] = @ + 1]
    /\ put_stats' = [put_stats EXCEPT ![w] = NoStats]
    /\ put_i' = [put_i EXCEPT ![w] = @ + 1]
    /\ put_pc' = [put_pc EXCEPT ![w] = "loop"]
    /\ UNCHANGED <<put_failed, getVars, mainVars>>

(* ======================= GET task (lines 134-214) ====================== *)

\* mutant: the loop head breaks on `get_num > get_count_per_thread`
GetLoopOffByOne(w) ==
    /\ get_pc[w] = "loop"
    /\ IF get_num[w] > get_count_per_thread
         THEN /\ get_pc' = [get_pc EXCEPT ![w] = "done"]
              /\ UNCHANGED <<token, objects, pass_end>>
         ELSE /\ token' = [token EXCEPT ![w] = 0]
              /\ objects' = [objects EXCEPT ![w] = <<>>]
              /\ pass_end' = [pass_end EXCEPT ![w] = "none"]
              /\ get_pc' = [get_pc EXCEPT ![w] = "list"]
    /\ UNCHANGED <<stats_vec, mutex, putVars, get_num, key, get_stats, get_pushed,
                   get_failed, empty_passes, sleeps, dispatches, mainVars>>

\* outer loop head: break when get_num >= get_count_per_thread, else start a
\* listing pass with a fresh request (no continuation token) and empty objects
GetLoop(w) ==
    /\ get_pc[w] = "loop"
    /\ IF get_num[w] >= get_count_per_thread
         THEN /\ get_pc' = [get_pc EXCEPT ![w] = "done"]
              /\ UNCHANGED <<token, objects, pass_end>>
         ELSE /\ token' = [token EXCEPT ![w] = 0]
              /\ objects' = [objects EXCEPT ![w] = <<>>]
              /\ pass_end' = [pass_end EXCEPT ![w] = "none"]
              /\ get_pc' = [get_pc EXCEPT ![w] = "list"]
    /\ UNCHANGED <<stats_vec, mutex, putVars, get_num, key, get_stats, get_pushed,
                   get_failed, empty_passes, sleeps, dispatches, mainVars>>

\* the listing loop is left (break): the pass is over
EndPass(w, how) ==
    /\ pass_end' = [pass_end EXCEPT ![w] = how]
    /\ get_pc' = [get_pc EXCEPT ![w] = "check"]
    /\ IF objects'[w] = <<>>
         THEN /\ empty_passes[w] < MaxSleeps
              /\ empty_passes' = [empty_passes EXCEPT ![w] = @ + 1]
         ELSE UNCHANGED empty_passes

\* Ok(result), result.contents is None: break, whether or not the response
\* carries a next_continuation_token (a page of a truncated listing may hold
\* no object)
ListNoContents(w) ==
    /\ get_pc[w] = "list"
    /\ UNCHANGED <<objects, token>>
    /\ \E more \in BOOLEAN :
         /\ more => token[w] < MaxPages - 1
         /\ EndPass(w, IF more THEN "no_contents_token" ELSE "no_contents")
    /\ UNCHANGED <<stats_vec, mutex, putVars, get_num, key, get_stats, get_pushed,
                   get_failed, sleeps, dispatches, mainVars>>

\* Ok(result) with contents: objects.extend(contents); break when there is no
\* next_continuation_token, else chain the token into the request
ListContents(w) ==
    /\ get_pc[w] = "list"
    /\ \E d \in FileSizes \cup {NoKey}, more \in BOOLEAN :
         /\ objects' = [objects EXCEPT ![w] = Append(@, d)]
         /\ IF more
              THEN /\ token[w] < MaxPages - 1
                   /\ token' = [token EXCEPT ![w] = @ + 1]
                   /\ UNCHANGED <<pass_end, get_pc, empty_passes>>
              ELSE /\ UNCHANGED token
                   /\ EndPass(w, "no_token")
    /\ UNCHANGED <<stats_vec, mutex, putVars, get_num, key, get_stats, get_pushed,
                   get_failed, sleeps, dispatches, mainVars>>

\* mutant: the retry builds a fresh request, dropping the continuation token
ListHttpDispatchRestart(w) ==
    /\ get_pc[w] = "list"
    /\ dispatches[w] < MaxDispatch
    /\ dispatches' = [dispatches EXCEPT ![w] = @ + 1]
    /\ token' = [token EXCEPT ![w] = 0]
    /\ UNCHANGED <<stats_vec, mutex, putVars, get_pc, get_num, objects, pass_end,
                   key, get_stats, get_pushed, get_failed, empty_passes, sleeps, mainVars>>

\* Err(HttpDispatch): print, go round the listing loop with the same request
ListHttpDispatch(w) ==
    /\ get_pc[w] = "list"
    /\ dispatches[w] < MaxDispatch
    /\ dispatches' = [dispatches EXCEPT ![w] = @ + 1]
    /\ UNCHANGED <<stats_vec, mutex, putVars, get_pc, get_num, token, objects, pass_end,
                   key, get_stats, get_pushed, get_failed, empty_passes, sleeps, mainVars>>

\* Err(e): eprintln, break
ListErr(w) ==
    /\ get_pc[w] = "list"
    /\ UNCHANGED <<objects, token>>
    /\ EndPass(w, "error")
    /\ UNCHANGED <<stats_vec, mutex, putVars, get_num, key, get_stats, get_pushed,
                   get_failed, sleeps, dispatches, mainVars>>

\* `if objects.len() == 0`
NoCandidates(w) == Len(objects[w]) = 0

\* mutant: the `if objects.len() == 0` block is missing, so an empty pass
\* counts and gen_range(0..0) panics the task
GetCheckNoEmptyCheck(w) ==
    /\ get_pc[w] = "check"
    /\ get_num' = [get_num EXCEPT ![w] = @ + 1]
    /\ IF Len(objects[w]) = 0
         THEN /\ get_pc' = [get_pc EXCEPT ![w] = "panicked"]
              /\ UNCHANGED <<key, get_stats>>
         ELSE \E i \in 1..Len(objects[w]), st \in StartInstants :
                IF objects[w][i] = NoKey
                  THEN /\ get_pc' = [get_pc EXCEPT ![w] = "panicked"]
                       /\ UNCHANGED <<key, get_stats>>
                  ELSE /\ key' = [key EXCEPT ![w] = objects[w][i]]
                       /\ get_stats' = [get_stats EXCEPT ![w] = Stats("Get", st, st, 0)]
                       /\ get_pc' = [get_pc EXCEPT ![w] = "get_await"]
    /\ UNCHANGED <<stats_vec, mutex, putVars, token, objects, pass_end, get_pushed,
                   get_failed, empty_passes, sleeps, dispatches, mainVars>>

\* mutant: `get_num += 1` placed before the `if objects.len() == 0` block
GetCheckCountsEmpty(w) ==
    /\ get_pc[w] = "check"
    /\ get_num' = [get_num EXCEPT ![w] = @ + 1]
    /\ IF Len(objects[w]) = 0
         THEN /\ sleeps' = [sleeps EXCEPT ![w] = @ + 1]
              /\ get_pc' = [get_pc EXCEPT ![w] = "sleep"]
              /\ UNCHANGED <<key, get_stats>>
         ELSE /\ \E i \in 1..Len(objects[w]), st \in StartInstants :
                   IF objects[w][i] = NoKey
                     THEN /\ get_pc' = [get_pc EXCEPT ![w] = "panicked"]
                          /\ UNCHANGED <<key, get_stats>>
                     ELSE /\ key' = [key EXCEPT ![w] = objects[w][i]]
                          /\ get_stats' = [get_stats EXCEPT ![w] = Stats("Get", st, st, 0)]
                          /\ get_pc' = [get_pc EXCEPT ![w] = "get_await"]
              /\ UNCHANGED sleeps
    /\ UNCHANGED <<stats_vec, mutex, putVars, token, objects, pass_end, get_pushed,
                   get_failed, empty_passes, dispatches, mainVars>>

\* after the listing loop: sleep 1 s and continue when objects is empty; else
\* get_num += 1, pick objects[gen_range(0..len)].key.unwrap() and send the get
GetCheck(w) ==
    /\ get_pc[w] = "check"
    /\ IF NoCandidates(w)
         THEN /\ sleeps' = [sleeps EXCEPT ![w] = @ + 1]
              /\ get_pc' = [get_pc EXCEPT ![w] = "sleep"]
              /\ UNCHANGED <<get_num, key, get_stats>>
         ELSE /\ get_num' = [get_num EXCEPT ![w] = @ + 1]
              /\ \E i \in 1..Len(objects[w]), st \in StartInstants :
                   IF objects[w][i] = NoKey
                     THEN /\ get_pc' = [get_pc EXCEPT ![w] = "panicked"]
                          /\ UNCHANGED <<key, get_stats>>
                     ELSE /\ key' = [key EXCEPT ![w] = objects[w][i]]
                          /\ get_stats' = [get_stats EXCEPT ![w] = Stats("Get", st, st, 0)]
                          /\ get_pc' = [get_pc EXCEPT ![w] = "get_await"]
              /\ UNCHANGED sleeps
    /\ UNCHANGED <<stats_vec, mutex, putVars, token, objects, pass_end, get_pushed,
                   get_failed, empty_passes, dispatches, mainVars>>

\* the sleep is over: `continue`
GetWake(w) ==
    /\ get_pc[w] = "sleep"
    /\ get_pc' = [get_pc EXCEPT ![w] = "loop"]
    /\ UNCHANGED <<stats_vec, mutex, putVars, get_num, token, objects, pass_end, key,
                   get_stats, get_pushed, get_failed, empty_passes, sleeps, dispatches,
                   mainVars>>

\* Ok(resp), body Some, read_to_end Ok: buf holds the object, end_time is taken
GetOk(w) ==
    /\ get_pc[w] = "get_await"
    /\ \E et \in EndInstants :
         get_stats' = [get_stats EXCEPT ![w].end_time = et, ![w].file_size = key[w]]
    /\ get_pc' = [get_pc EXCEPT ![w] = "lock"]
    /\ UNCHANGED <<stats_vec, mutex, putVars, get_num, token, objects, pass_end, key,
                   get_pushed, get_failed, empty_passes, sleeps, dispatches, mainVars>>

\* Ok(resp), body Some, read_to_end Err: unwrap panics and the task ends
GetReadErr(w) ==
    /\ get_pc[w] = "get_await"
    /\ get_pc' = [get_pc EXCEPT ![w] = "panicked"]
    /\ get_stats' = [get_stats EXCEPT ![w] = NoStats]
    /\ UNCHANGED <<stats_vec, mutex, putVars, get_num, token, objects, pass_end, key,
                   get_pushed, get_failed, empty_passes, sleeps, dispatches, mainVars>>

\* Ok(resp) with body None, Err(HttpDispatch), Err(e): back to the loop head
GetErr(w) ==
    /\ get_pc[w] = "get_await"
    /\ get_failed' = [get_failed EXCEPT ![w] = @ + 1]
    /\ get_stats' = [get_stats EXCEPT ![w] = NoStats]
    /\ get_pc' = [get_pc EXCEPT ![w] = "loop"]
    /\ UNCHANGED <<stats_vec, mutex, putVars, get_num, token, objects, pass_end, key,
                   get_pushed, empty_passes, sleeps, dispatches, mainVars>>

\* stats_vec.lock().unwrap()
GetLock(w) ==
    /\ get_pc[w] = "lock"
    /\ mutex = Free
    /\ mutex' = <<"get", w>>
    /\ get_pc' = [get_pc EXCEPT ![w] = "push"]
    /\ UNCHANGED <<stats_vec, putVars, get_num, token, objects, pass_end, key, get_stats,
                   get_pushed, get_failed, empty_passes, sleeps, dispatches, mainVars>>

\* .push(stats); the guard is dropped at the end of the statement
GetPush(w) ==
    /\ get_pc[w] = "push"
    /\ mutex = <<"get", w>>
    /\ stats_vec' = Push(stats_vec, get_stats[w])
    /\ mutex' = Free
    /\ get_pushed' = [get_pushed EXCEPT ![w] = @ + 1]
    /\ get_stats' = [get_stats EXCEPT ![w] = NoStats]
    /\ get_pc' = [get_pc EXCEPT ![w] = "loop"]
    /\ UNCHANGED <<putVars, get_num, token, objects, pass_end, key, get_failed,
                   empty_passes, sleeps, dispatches, mainVars>>

(* ================== main after the spawns (lines 218-257) ============== *)

\* a spawned task's JoinHandle is ready: the task returned or panicked
PutTerminal(w) == put_pc[w] = "done"

GetTerminal(w) == get_pc[w] \in {"done", "panicked"}

\* mutant: only the PUT handles are awaited
JoinReadyPutOnly == \A w \in PutWorkers : PutTerminal(w)

\* block_on(join_all(tasks_future)) returns
JoinReady ==
    /\ \A w \in PutWorkers : PutTerminal(w)
    /\ \A w \in GetWorkers : GetTerminal(w)

\* join_all returns; the six accumulators are initialised
JoinAll ==
    /\ main_pc = "join"
    /\ JoinReady
    /\ acc' = ZeroAcc
    /\ main_pc' = "lock"
    /\ UNCHANGED <<stats_vec, mutex, putVars, getVars, idx, report, passes, first_report>>

\* let stat_vec = stats_vec.lock().unwrap(); stat_vec.iter()
AggLock ==
    /\ main_pc = "lock"
    /\ mutex = Free
    /\ mutex' = <<"main", 0>>
    /\ idx' = 1
    /\ main_pc' = "iter"
    /\ UNCHANGED <<stats_vec, putVars, getVars, acc, report, passes, first_report>>

\* end_time.duration_since(start_time).as_millis()
Millis(i) == i.end_time - i.start_time

\* mutant: the Get arm adds its time and size to the Put accumulators
AccumulateMixed(a, i) ==
    IF i.request_type = "Put"
      THEN [a EXCEPT !.put_count = @ + 1,
                     !.put_time = @ + Millis(i),
                     !.put_file_size = @ + i.file_size]
      ELSE [a EXCEPT !.get_count = @ + 1,
                     !.put_time = @ + Millis(i),
                     !.put_file_size = @ + i.file_size]

\* mutant: the arms assign the time and size (`=`) instead of adding (`+=`)
AccumulateAssign(a, i) ==
    IF i.request_type = "Put"
      THEN [a EXCEPT !.put_count = @ + 1,
                     !.put_time = Millis(i),
                     !.put_file_size = i.file_size]
      ELSE [a EXCEPT !.get_count = @ + 1,
                     !.get_time = Millis(i),
                     !.get_file_size = i.file_size]

\* one turn of the match in the for loop
Accumulate(a, i) ==
    IF i.request_type = "Put"
      THEN [a EXCEPT !.put_count = @ + 1,
                     !.put_time = @ + Millis(i),
                     !.put_file_size = @ + i.file_size]
      ELSE [a EXCEPT !.get_count = @ + 1,
                     !.get_time = @ + Millis(i),
                     !.get_file_size = @ + i.file_size]

\* mutant: the loop consumes the vector (drain) instead of borrowing it
AggIterDrain ==
    /\ main_pc = "iter"
    /\ IF stats_vec # <<>>
         THEN /\ acc' = Accumulate(acc, Head(stats_vec))
              /\ stats_vec' = Tail(stats_vec)
              /\ UNCHANGED main_pc
         ELSE /\ main_pc' = "avg"
              /\ UNCHANGED <<acc, stats_vec>>
    /\ UNCHANGED <<idx, mutex, putVars, getVars, report, passes, first_report>>

\* for i in stat_vec.iter()
AggIter ==
    /\ main_pc = "iter"
    /\ IF idx <= Len(stats_vec)
         THEN /\ acc' = Accumulate(acc, stats_vec[idx])
              /\ idx' = idx + 1
              /\ UNCHANGED main_pc
         ELSE /\ main_pc' = "avg"
              /\ UNCHANGED <<acc, idx>>
    /\ UNCHANGED <<stats_vec, mutex, putVars, getVars, report, passes, first_report>>

RECURSIVE FoldStats(_, _)
\* the whole for loop over a vector, from accumulators a
FoldStats(a, vec) ==
    IF vec = <<>> THEN a ELSE FoldStats(Accumulate(a, Head(vec)), Tail(vec))

\* the two println! lines
Report(a) ==
    [put |-> [count |-> a.put_count, total_time |-> a.put_time,
              avg_time |-> a.put_time \div a.put_count,
              total_size |-> (a.put_file_size \div 1024) \div 1024],
     get |-> [count |-> a.get_count, total_time |-> a.get_time,
              avg_time |-> a.get_time \div a.get_count,
              total_size |-> (a.get_file_size \div 1024) \div 1024]]

\* put_time / put_count and get_time / get_count: a zero divisor panics main
\* before anything is printed; else both lines are printed
AggAvg ==
    /\ main_pc = "avg"
    /\ IF acc.put_count = 0 \/ acc.get_count = 0
         THEN /\ main_pc' = "panicked"
              /\ UNCHANGED <<report, passes>>
         ELSE /\ report' = Report(acc)
              /\ passes' = passes + 1
              /\ main_pc' = "reported"
    /\ mutex' = Free
    /\ UNCHANGED <<stats_vec, putVars, getVars, idx, acc, first_report>>

\* the aggregation pass (lines 220-257) applied a second time to the same
\* vector; main itself runs it once, so this step is only part of SpecAgg
AggAgain ==
    /\ main_pc = "reported"
    /\ passes = 1
    /\ first_report' = report
    /\ report' = NoReport
    /\ acc' = ZeroAcc
    /\ main_pc' = "lock"
    /\ UNCHANGED <<stats_vec, mutex, putVars, getVars, idx, passes>>

Next ==
    \/ \E w \in PutWorkers : PutLoop(w)
    \/ \E w \in PutWorkers : PutOk(w)
    \/ \E w \in PutWorkers : PutErr(w)
    \/ \E w \in PutWorkers : PutLock(w)
    \/ \E w \in PutWorkers : PutPush(w)
    \/ \E w \in GetWorkers : GetLoop(w)
    \/ \E w \in GetWorkers : ListNoContents(w)
    \/ \E w \in GetWorkers : ListContents(w)
    \/ \E w \in GetWorkers : ListHttpDispatch(w)
    \/ \E w \in GetWorkers : ListErr(w)
    \/ \E w \in GetWorkers : GetCheck(w)
    \/ \E w \in GetWorkers : GetWake(w)
    \/ \E w \in GetWorkers : GetOk(w)
    \/ \E w \in GetWorkers : GetReadErr(w)
    \/ \E w \in GetWorkers : GetErr(w)
    \/ \E w \in GetWorkers : GetLock(w)
    \/ \E w \in GetWorkers : GetPush(w)
    \/ JoinAll
    \/ AggLock
    \/ AggIter
    \/ AggAvg

Spec == Init /\ [][Next]_vars

(* ============ the aggregation on its own, over bounded vectors ========== *)

\* (start_time, end_time) pairs of the records the aggregation is run on
AggInstants == {<<0, 10>>, <<5, 25>>}
\* file sizes of those records: below 1 MiB each, two of the large one exceed it
AggSizes == {1024, 1048000}

AggStats ==
    {Stats(rt, t[1], t[2], fs) : rt \in {"Put", "Get"}, t \in AggInstants, fs \in AggSizes}

SeqsUpTo(S, n) == UNION {[1..k -> S] : k \in 0..n}

\* six Get records of 1000..6000 bytes taking 10,20,10,20,10,20 ms, and one Put
ExampleStats ==
    <<Stats("Get", 0, 10, 1000), Stats("Get", 0, 20, 2000), Stats("Get", 0, 10, 3000),
      Stats("Put", 0, 10, 1024),
      Stats("Get", 0, 20, 4000), Stats("Get", 0, 10, 5000), Stats("Get", 0, 20, 6000)>>

\* every task has ended and left some vector behind; main is at join_all
InitAgg ==
    /\ stats_vec \in SeqsUpTo(AggStats, MaxStats) \cup {ExampleStats}
    /\ mutex = Free
    /\ put_pc = [w \in PutWorkers |-> "done"]
    /\ put_i = [w \in PutWorkers |-> put_count_per_thread]
    /\ put_stats = [w \in PutWorkers |-> NoStats]
    /\ put_pushed = [w \in PutWorkers |-> 0]
    /\ put_failed = [w \in PutWorkers |-> 0]
    /\ get_pc = [w \in GetWorkers |-> "done"]
    /\ get_num = [w \in GetWorkers |-> get_count_per_thread]
    /\ token = [w \in GetWorkers |-> 0]
    /\ objects = [w \in GetWorkers |-> <<>>]
    /\ pass_end = [w \in GetWorkers |-> "none"]
    /\ key = [w \in GetWorkers |-> NoKey]
    /\ get_stats = [w \in GetWorkers |-> NoStats]
    /\ get_pushed = [w \in GetWorkers |-> 0]
    /\ get_failed = [w \in GetWorkers |-> 0]
    /\ empty_passes = [w \in GetWorkers |-> 0]
    /\ sleeps = [w \in GetWorkers |-> 0]
    /\ dispatches = [w \in GetWorkers |-> 0]
    /\ main_pc = "join"
    /\ idx = 0
    /\ acc = ZeroAcc
    /\ report = NoReport
    /\ passes = 0
    /\ first_report = NoReport

NextAgg ==
    \/ JoinAll
    \/ AggLock
    \/ AggIter
    \/ AggAvg
    \/ AggAgain

SpecAgg == InitAgg /\ [][NextAgg]_vars

(* ===== the run against a store whose calls all succeed, fairly scheduled ===== *)

\* an object exists under root_prefix: some put_object has returned Ok
Stored == \E w \in PutWorkers : put_pc[w] \in {"lock", "push"} \/ put_pushed[w] > 0

\* list_objects_v2 on a prefix without objects: Ok, no contents, no token
LiveListEmpty(w) ==
    /\ ~Stored
    /\ ListNoContents(w)
    /\ pass_end'[w] = "no_contents"

\* list_objects_v2 on a prefix with objects: Ok, a page of objects with keys
LiveListContents(w) ==
    /\ Stored
    /\ ListContents(w)
    /\ objects'[w][Len(objects'[w])] # NoKey

\* the next step of PUT task w when put_object succeeds
PutStepLive(w) == PutLoop(w) \/ PutOk(w) \/ PutLock(w) \/ PutPush(w)

\* the next step of GET task w when list_objects_v2, get_object and the read succeed
GetStepLive(w) ==
    \/ GetLoop(w)
    \/ LiveListEmpty(w)
    \/ LiveListContents(w)
    \/ GetCheck(w)
    \/ GetWake(w)
    \/ GetOk(w)
    \/ GetLock(w)
    \/ GetPush(w)

\* the next step of main after the spawns
MainStep == JoinAll \/ AggLock \/ AggIter \/ AggAvg

NextLive ==
    \/ \E w \in PutWorkers : PutStepLive(w)
    \/ \E w \in GetWorkers : GetStepLive(w)
    \/ MainStep

\* the tokio runtime keeps polling every spawned task that can proceed, and
\* main's thread runs whenever join_all or the mutex lets it
Fairness ==
    /\ \A w \in PutWorkers : WF_vars(PutStepLive(w))
    /\ \A w \in GetWorkers : WF_vars(GetStepLive(w))
    /\ WF_vars(MainStep)

SpecLive == Init /\ [][NextLive]_vars /\ Fairness

(* =============================== claims ================================ *)

\* number of records of one kind in a vector
CountKind(vec, k) == Cardinality({i \in 1..Len(vec) : vec[i].request_type = k})

RECURSIVE SumOver(_, _)
\* sum of f[w] over the tasks w in S
SumOver(f, S) ==
    IF S = {} THEN 0
    ELSE LET w == CHOOSE x \in S : TRUE IN f[w] + SumOver(f, S \ {w})

AllTerminal ==
    /\ \A w \in PutWorkers : put_pc[w] = "done"
    /\ \A w \in GetWorkers : get_pc[w] \in {"done", "panicked"}

\* C1: a GET task that has left its loop has pushed exactly
\* get_count_per_thread Get records, whatever the store answered.
GetDoneAfterGetCountReads ==
    \A w \in GetWorkers : get_pc[w] = "done" => get_pushed[w] = get_count_per_thread

\* C2: the aggregation never faults: main never panics on the two averages,
\* also when one kind has no record.
AggregationNeverFaults == main_pc # "panicked"

\* C3: join barrier: once main is past join_all every PUT and GET task has
\* ended, and from then on no step changes the stats vector.
JoinBarrier ==
    /\ [](main_pc # "join" => AllTerminal)
    /\ [][main_pc # "join" => stats_vec' = stats_vec]_vars

JoinBarrierWitness ==
    /\ main_pc = "iter"
    /\ idx = 3
    /\ CountKind(stats_vec, "Put") >= 2
    /\ CountKind(stats_vec, "Get") >= 1

\* C4: when no put failed, the vector main sees after the join holds exactly
\* put_concurrency * put_count_per_thread Put records, in every interleaving.
NoPutRecordLostOrDuplicated ==
    (main_pc # "join" /\ \A w \in PutWorkers : put_failed[w] = 0)
        => CountKind(stats_vec, "Put") = put_concurrency * put_count_per_thread

\* all puts succeeded, and the two PUT tasks' records are interleaved with a
\* Get record in the vector
NoPutRecordLostWitness ==
    /\ main_pc = "avg"
    /\ \A w \in PutWorkers : put_failed[w] = 0
    /\ Len(stats_vec) >= 5
    /\ stats_vec[1].request_type = "Put"
    /\ stats_vec[2].request_type = "Get"
    /\ stats_vec[3].request_type = "Put"

\* C5: a PUT task runs exactly put_count_per_thread iterations: each iteration
\* ends in one push or one failure, a failure pushes nothing, is not retried
\* and is followed by the next iteration, so a task that is done with k
\* failures has pushed put_count_per_thread - k records, and the Put records
\* in the vector are exactly the pushes of the tasks.
PutWorkerRunsEveryIteration ==
    /\ [](\A w \in PutWorkers :
            /\ put_i[w] <= put_count_per_thread
            /\ put_pushed[w] + put_failed[w] = put_i[w]
            /\ (put_pc[w] = "done" => put_i[w] = put_count_per_thread))
    /\ [](CountKind(stats_vec, "Put") = SumOver(put_pushed, PutWorkers))
    /\ [][\A w \in PutWorkers :
            put_failed'[w] # put_failed[w]
                => /\ stats_vec' = stats_vec
                   /\ put_i'[w] = put_i[w] + 1
                   /\ put_pc'[w] = "loop"]_vars

\* task 1 failed its first put, still ran the second, and is done with one record
PutWorkerFailureWitness ==
    /\ put_pc[1] = "done"
    /\ put_failed[1] = 1
    /\ put_pushed[1] = put_count_per_thread - 1
    /\ stats_vec # <<>>

\* C6: a listing pass that ends with no candidate issues no get and does not
\* advance get_num: the task sleeps, then starts a new pass with an empty
\* candidate list; a get is issued only out of a pass that left candidates.
NoGetFromEmptyListing ==
    /\ [](\A w \in GetWorkers :
            get_pc[w] \in {"get_await", "lock", "push"} => Len(objects[w]) > 0)
    /\ [][\A w \in GetWorkers :
            /\ (get_pc[w] = "check" /\ Len(objects[w]) = 0 /\ get_pc'[w] # "check")
                 => /\ get_pc'[w] = "sleep"
                    /\ get_num'[w] = get_num[w]
                    /\ stats_vec' = stats_vec
            /\ (get_pc[w] = "sleep" /\ get_pc'[w] # "sleep")
                 => /\ get_pc'[w] = "loop"
                    /\ get_num'[w] = get_num[w]
            /\ (get_pc[w] = "loop" /\ get_pc'[w] \notin {"loop", "done"})
                 => /\ get_pc'[w] = "list"
                    /\ objects'[w] = <<>>
            /\ (get_pc'[w] = "get_await" /\ get_pc[w] # "get_await")
                 => /\ get_pc[w] = "check"
                    /\ Len(objects[w]) > 0]_vars

\* a task that slept after an empty pass and is now in a get
NoGetFromEmptyListingWitness ==
    \E w \in GetWorkers :
        /\ sleeps[w] = 1
        /\ get_pc[w] = "get_await"
        /\ get_num[w] = 1

\* C7: empty listing passes cost no read: every empty pass is followed by
\* exactly one sleep (so k empty passes make k sleeps before the next get),
\* and a task whose gets all succeeded is done with exactly
\* get_count_per_thread records, however many times it slept.
EmptyListingRetriesAreFree ==
    \A w \in GetWorkers :
        /\ (get_pc[w] # "check" => sleeps[w] = empty_passes[w])
        /\ (get_pc[w] = "done" /\ get_failed[w] = 0
              => get_pushed[w] = get_count_per_thread)

\* one empty pass, one sleep, then get_count_per_thread successful gets
EmptyListingRetriesWitness ==
    \E w \in GetWorkers :
        /\ get_pc[w] = "done"
        /\ get_failed[w] = 0
        /\ sleeps[w] = MaxSleeps
        /\ get_pushed[w] = get_count_per_thread
        /\ CountKind(stats_vec, "Get") = get_count_per_thread

RECURSIVE SumTimes(_)
\* sum of the elapsed milliseconds of the records of a vector
SumTimes(vec) ==
    IF vec = <<>> THEN 0
    ELSE (Head(vec).end_time - Head(vec).start_time) + SumTimes(Tail(vec))

RECURSIVE SumSizes(_)
\* sum of the byte sizes of the records of a vector
SumSizes(vec) == IF vec = <<>> THEN 0 ELSE Head(vec).file_size + SumSizes(Tail(vec))

\* the reference summary line of kind k
RefSummary(vec, k) ==
    LET part == SelectSeq(vec, LAMBDA r : r.request_type = k) IN
    [count |-> Len(part),
     total_time |-> SumTimes(part),
     avg_time |-> SumTimes(part) \div Len(part),
     total_size |-> SumSizes(part) \div (1024 * 1024)]

\* C8: the printed summary is the reference aggregation of the vector: per
\* kind, the number of records of that kind, the sum of their elapsed
\* milliseconds, that sum divided by the count (truncating), and the sum of
\* their sizes divided by 1024*1024 (truncating).
SummaryIsReference ==
    main_pc = "reported"
        => /\ report.put = RefSummary(stats_vec, "Put")
           /\ report.get = RefSummary(stats_vec, "Get")

\* the six records of 1000..6000 bytes and 10,20,10,20,10,20 ms (here of kind
\* Get, beside one Put record) give count=6, total=90, avg=15, size=0
SummaryExampleWitness ==
    /\ main_pc = "reported"
    /\ stats_vec = ExampleStats
    /\ report.get = [count |-> 6, total_time |-> 90, avg_time |-> 15, total_size |-> 0]
    /\ report.put = [count |-> 1, total_time |-> 10, avg_time |-> 10, total_size |-> 0]

\* C9: the aggregation pass run a second time on the same vector prints the
\* same summary, and no step of a pass changes the vector.
AggregationIdempotent ==
    /\ [](passes = 2 => report = first_report)
    /\ [][stats_vec' = stats_vec]_vars

\* two passes completed over a vector with records of both kinds
AggregationTwiceWitness ==
    /\ passes = 2
    /\ main_pc = "reported"
    /\ report.put.count >= 2
    /\ report.get.count >= 1
    /\ report.put.total_size = 1

\* C10: a listing pass that was left on an error other than HttpDispatch
\* issues no get: while pass_end is "error" the task is never in a get (it is
\* in the empty-candidate check, the sleep or back at the loop head).
NoGetAfterListError ==
    \A w \in GetWorkers :
        pass_end[w] = "error" => get_pc[w] \notin {"get_await", "lock", "push"}

\* C11: no failure of a store interaction ends a task: a step out of a put in
\* flight does not end the PUT task, and a step out of a listing request or
\* out of a get in flight (error, missing body, failed read of the body) does
\* not end the GET task; the task goes on.
WorkerSurvivesStoreFailures ==
    [][/\ \A w \in PutWorkers :
            put_pc[w] = "put_await" => put_pc'[w] # "done"
       /\ \A w \in GetWorkers :
            get_pc[w] \in {"list", "get_await"}
                => get_pc'[w] \notin {"done", "panicked"}]_vars

\* the response that ended the pass carried a next_continuation_token
EndedOnToken(w) == pass_end[w] = "no_contents_token"

\* C12: a listing pass is complete: a pass that ended without an error ended
\* on a response that carries no continuation token, so every page of the
\* listing was requested and its objects are among the candidates.
ListingPassComplete ==
    \A w \in GetWorkers : pass_end[w] \notin {"none", "error"} => ~EndedOnToken(w)

\* C13: an HttpDispatch failure on a listing page re-issues the same page: the
\* step that prints the line leaves the continuation token and the candidates
\* as they were, stays in the listing loop (no sleep, no get), leaves get_num
\* and the stats vector alone, so the next request carries the same token.
ListDispatchRetriesSamePage ==
    [][\A w \in GetWorkers :
         dispatches'[w] # dispatches[w]
             => /\ token'[w] = token[w]
                /\ objects'[w] = objects[w]
                /\ get_pc[w] = "list"
                /\ get_pc'[w] = "list"
                /\ get_num'[w] = get_num[w]
                /\ sleeps'[w] = sleeps[w]
                /\ key'[w] = key[w]
                /\ stats_vec' = stats_vec]_vars

\* the failure hit the second page: a token and one candidate were in hand
ListDispatchWitness ==
    \E w \in GetWorkers :
        /\ get_pc[w] = "list"
        /\ dispatches[w] = 1
        /\ token[w] = 1
        /\ Len(objects[w]) = 1
        /\ get_num[w] = 1

\* C14: the stats vector is append-only and exactly-once: it holds one record
\* per push of a successful put or get and none for a failed one; a request
\* that succeeded is pushed by the next two steps of its task (lock, push)
\* with the record built from it; every step leaves the vector as it is or
\* appends that one record at its end, the records before it unchanged.
StatsAppendOnlyExactlyOnce ==
    /\ [](/\ Len(stats_vec) = SumOver(put_pushed, PutWorkers) + SumOver(get_pushed, GetWorkers)
          /\ CountKind(stats_vec, "Put") = SumOver(put_pushed, PutWorkers)
          /\ CountKind(stats_vec, "Get") = SumOver(get_pushed, GetWorkers)
          /\ \A w \in PutWorkers : put_pushed[w] = put_i[w] - put_failed[w])
    /\ [][\/ stats_vec' = stats_vec
          \/ \E w \in PutWorkers :
                /\ put_pc[w] = "push"
                /\ put_stats[w].request_type = "Put"
                /\ stats_vec' = Append(stats_vec, put_stats[w])
          \/ \E w \in GetWorkers :
                /\ get_pc[w] = "push"
                /\ get_stats[w].request_type = "Get"
                /\ stats_vec' = Append(stats_vec, get_stats[w])]_vars
    /\ [][/\ \A w \in PutWorkers :
              /\ put_failed'[w] # put_failed[w] => stats_vec' = stats_vec
              /\ (put_pc[w] = "lock" /\ put_pc'[w] # "lock")
                    => put_pc'[w] = "push" /\ put_stats'[w] = put_stats[w]
              /\ (put_pc[w] = "push" /\ put_pc'[w] # "push")
                    => stats_vec' = Append(stats_vec, put_stats[w])
          /\ \A w \in GetWorkers :
              /\ (get_failed'[w] # get_failed[w]
                    \/ (get_pc[w] # "panicked" /\ get_pc'[w] = "panicked"))
                    => stats_vec' = stats_vec
              /\ (get_pc[w] = "lock" /\ get_pc'[w] # "lock")
                    => get_pc'[w] = "push" /\ get_stats'[w] = get_stats[w]
              /\ (get_pc[w] = "push" /\ get_pc'[w] # "push")
                    => stats_vec' = Append(stats_vec, get_stats[w])]_vars

\* two puts and a get recorded in that order while a put and a get had failed
StatsAppendWitness ==
    /\ Len(stats_vec) = 3
    /\ stats_vec[1].request_type = "Put"
    /\ stats_vec[2].request_type = "Put"
    /\ stats_vec[3].request_type = "Get"
    /\ \E w \in PutWorkers : put_failed[w] = 1
    /\ \E w \in GetWorkers : get_failed[w] = 1

\* the tasks that are inside the critical section of the stats vector
InCritical ==
    {<<"put", w>> : w \in {x \in PutWorkers : put_pc[x] = "push"}}
        \cup {<<"get", w>> : w \in {x \in GetWorkers : get_pc[x] = "push"}}

\* C15: appends are mutually exclusive: at most one task is in the critical
\* section and it is the holder of the mutex; a task holds the mutex only at
\* its push (not during a store call or a sleep) and its next step pushes one
\* record and unlocks; until the join the tasks only append to the vector.
AppendsMutuallyExclusive ==
    /\ [](/\ Cardinality(InCritical) <= 1
          /\ \A t \in InCritical : mutex = t
          /\ (mutex[1] \in {"put", "get"} => mutex \in InCritical)
          /\ (mutex[1] = "main" => main_pc \in {"iter", "avg"}))
    /\ [][/\ \A w \in PutWorkers :
                (put_pc[w] = "push" /\ put_pc'[w] # "push")
                    => mutex' = Free /\ Len(stats_vec') = Len(stats_vec) + 1
          /\ \A w \in GetWorkers :
                (get_pc[w] = "push" /\ get_pc'[w] # "push")
                    => mutex' = Free /\ Len(stats_vec') = Len(stats_vec) + 1
          /\ (main_pc = "join" /\ stats_vec' # stats_vec)
                => /\ Len(stats_vec') = Len(stats_vec) + 1
                   /\ SubSeq(stats_vec', 1, Len(stats_vec)) = stats_vec]_vars

\* PUT task 1 holds the mutex while PUT task 2 and a GET task wait for it
AppendsExclusiveWitness ==
    /\ mutex = <<"put", 1>>
    /\ put_pc[2] = "lock"
    /\ \E w \in GetWorkers : get_pc[w] = "lock"

\* put requests PUT task w has sent: the finished iterations and the one in hand
PutsIssued(w) ==
    put_i[w] + (IF put_pc[w] \in {"put_await", "lock", "push"} THEN 1 ELSE 0)

\* C16: whatever the store returns, a GET task has sent at most
\* get_count_per_thread gets (get_num counts them, and every answered get is
\* one of them) and a PUT task at most put_count_per_thread puts, so the
\* vector holds at most get_concurrency * get_count_per_thread Get records
\* and at most put_concurrency * put_count_per_thread Put records.
RequestsBounded ==
    /\ \A w \in GetWorkers :
          /\ get_num[w] <= get_count_per_thread
          /\ get_pushed[w] + get_failed[w] <= get_num[w]
          /\ (get_pc[w] \in {"get_await", "lock", "push"}
                => get_pushed[w] + get_failed[w] < get_num[w])
    /\ \A w \in PutWorkers : PutsIssued(w) <= put_count_per_thread
    /\ CountKind(stats_vec, "Get") <= get_concurrency * get_count_per_thread
    /\ CountKind(stats_vec, "Put") <= put_concurrency * put_count_per_thread

\* both bounds are met: every put and every get of the run was recorded
RequestsBoundedWitness ==
    /\ CountKind(stats_vec, "Get") = get_concurrency * get_count_per_thread
    /\ CountKind(stats_vec, "Put") = put_concurrency * put_count_per_thread
    /\ \E w \in GetWorkers : sleeps[w] = 1 /\ dispatches[w] = 1

\* C17: with every store call succeeding and the listing non-empty from the
\* first successful put on, under weak fairness of every task and of main:
\* every PUT and GET task ends, main passes the join and completes the
\* aggregation, and a GET task that slept on an empty listing ends too.
RunTerminates ==
    /\ <>(AllTerminal /\ main_pc = "reported")
    /\ \A w \in GetWorkers : (get_pc[w] = "sleep") ~> (get_pc[w] = "done")

\* the run is over and a GET task had found the prefix empty and slept
RunTerminatesWitness ==
    /\ main_pc = "reported"
    /\ \A w \in PutWorkers : put_pc[w] = "done"
    /\ \E w \in GetWorkers : sleeps[w] = 1 /\ get_pc[w] = "done"

\* the records of vec in the order given by the permutation p of its indices
Reordered(vec, p) == [i \in 1..Len(vec) |-> vec[p[i]]]

\* C18: the report does not depend on the order of the appends: the two lines
\* printed for the vector are the lines the aggregation loop yields for every
\* reordering of the same records.
ReportOrderIndependent ==
    main_pc = "reported"
        => \A p \in Permutations(1..Len(stats_vec)) :
              Report(FoldStats(ZeroAcc, Reordered(stats_vec, p))) = report

\* a report over two different Put records with a Get record between them
ReportOrderWitness ==
    /\ main_pc = "reported"
    /\ Len(stats_vec) = 3
    /\ stats_vec[1] = Stats("Put", 0, 10, 1024)
    /\ stats_vec[2].request_type = "Get"
    /\ stats_vec[3] = Stats("Put", 5, 25, 1048000)
====
